---- MODULE Spec2Model ----
(***************************************************************************)
(* A model of the state-extraction pipeline of Ethical_Head:               *)
(*   pipeline/src/env/state_extractor.py   (StateExtractor)   Spec         *)
(*   pipeline/src/validation/validator.py  (Validator)   SpecValidator     *)
(*   pipeline/src/validation/statistics.py (Statistics)  SpecStatistics    *)
(*   pipeline/src/env/carla_connector.py   (CarlaConnector) SpecConnector  *)
(*   pipeline/src/env/mock_pedestrian.py   (MockPedestrianGenerator)       *)
(*                                                       SpecPedestrians   *)
(*   pipeline/src/scripts/validate.py      (main)        SpecDriver        *)
(* Each object has its own specification; the variables of the others stay *)
(* as they are before their construction.  The script of SpecDriver runs   *)
(* the validator and the statistics.                                       *)
(*                                                                         *)
(* Numbers.  Python floats are modelled as rationals n/d (records with     *)
(* k = "num", kept in lowest terms), next to the two non-numbers the code  *)
(* can produce: Python's None and the float NaN.  In the extractor         *)
(* rounding is not modelled: positions and velocities are integer vectors, *)
(* velocities are drawn from vectors whose Euclidean norm is an integer,   *)
(* and the cone angles are the ones for which the float comparison         *)
(* angle > angle_max agrees with the exact one on the whole grid (30 and   *)
(* 90 degrees).  The validator only compares numbers.  In the statistics   *)
(* every arithmetic result is rounded to a float of Precision bits.        *)
(***************************************************************************)
EXTENDS Integers, Sequences, FiniteSets, TLC

VARIABLES
    config,         \* StateExtractor.config: the 'extraction' section
    world,          \* StateExtractor.world: "None" or "World"
    map,            \* StateExtractor.map: "None" or "Map"
    op,             \* the operation called last ("none" after construction)
    ego_vehicle,    \* its ego_vehicle argument (NoneActor for None)
    all_vehicles,   \* world.get_actors().filter('vehicle.*') at the call
    waypoint,       \* what map.get_waypoint answers at the call
    lead_vehicle,   \* the local lead_vehicle of get_velocity_delta
    outcome,        \* "none", "return" or the exception raised
    ret,            \* the scalar returned (get_* operations)
    state,          \* the array returned by extract_basic_state
    state_dict,     \* the dict returned by get_state_dict
    ranges,         \* Validator.ranges: the 'validation' section
    validation,     \* the last call of Validator.validate and how it ended
    samples,        \* Statistics.samples
    files,          \* the file system: what is stored at each path
    stat_call,      \* the last call on the Statistics object and how it ended
    summary_ret,    \* the dict returned by the last summary()
    loaded,         \* the dict load() returned, if it was the last call
    updates,        \* history: the number of update() calls so far
    saved,          \* history: per path, summary() at the last save(path)
    connector,      \* the fields of the CarlaConnector
    settings,       \* the settings of the simulator's world
    conn_call,      \* the last call on the CarlaConnector and how it ended
    connected_once, \* history: some connect() has returned True
    probabilities,  \* MockPedestrianGenerator._probabilities
    walker_blueprints,      \* what blueprint_library.filter("walker...") gives
    attributes_by_actor_id, \* MockPedestrianGenerator._attributes_by_actor_id
    ped_call,       \* the last call on the generator and how it ended
    assignments,    \* history: the actors spawned and the clear() calls
    states,         \* validate.py: the array of state vectors loaded
    next_idx,       \* validate.py: idx of the next round of the loop
    errors,         \* validate.py: the list 'errors'
    report,         \* validate.py: what is written to the report file
    driver_pc,      \* validate.py: "none", "loop", "report", "done", "raised"
    processed       \* history: the indices the loop has been through

extractor_vars ==
    <<config, world, map, op, ego_vehicle, all_vehicles, waypoint,
      lead_vehicle, outcome, ret, state, state_dict>>

validator_vars == <<ranges, validation>>

statistics_vars ==
    <<samples, files, stat_call, summary_ret, loaded, updates, saved>>

connector_vars == <<connector, settings, conn_call, connected_once>>

\* the variables of the objects added to the three above
pedestrian_vars ==
    <<probabilities, walker_blueprints, attributes_by_actor_id, ped_call,
      assignments>>

driver_vars == <<states, next_idx, errors, report, driver_pc, processed>>

other_vars == <<connector_vars, pedestrian_vars, driver_vars>>

vars == <<extractor_vars, validator_vars, statistics_vars, other_vars>>

-----------------------------------------------------------------------------
(* Bounds of the model *)

\* the other vehicles sit at x in -1..GridMax, y in -1..1, z = 0
GridMax == 3

\* a float has a significand of Precision bits
Precision == 3

\* update() is called at most MaxSamples times
MaxSamples == 3

\* the lists handed to validate() are up to LenSlack elements shorter or
\* longer than the expected dimension
LenSlack == 1

-----------------------------------------------------------------------------
(* Values: None, NaN and rationals *)

Abs(i) == IF i < 0 THEN -i ELSE i

RECURSIVE GCD(_, _)
GCD(a, b) == IF b = 0 THEN a ELSE GCD(b, a % b)

NoneVal == [k |-> "None", n |-> 0, d |-> 1]
NaNVal == [k |-> "NaN", n |-> 0, d |-> 1]

\* the rational n/d (d # 0) in lowest terms with a positive denominator
Rat(n, d) ==
    LET g == GCD(Abs(n), Abs(d))
        s == IF d < 0 THEN -1 ELSE 1
    IN  [k |-> "num", n |-> (s * n) \div g, d |-> (s * d) \div g]

Int2Val(i) == Rat(i, 1)
IsNum(v) == v.k = "num"
RatLE(a, b) == a.n * b.d <= b.n * a.d
RatLT(a, b) == a.n * b.d < b.n * a.d
RatSub(a, b) == Rat(a.n * b.d - b.n * a.d, a.d * b.d)
RatDiv(a, b) == Rat(a.n * b.d, a.d * b.n)

-----------------------------------------------------------------------------
(* Vectors, actors, waypoints *)

Dot(u, v) == u[1] * v[1] + u[2] * v[2] + u[3] * v[3]
Minus(u, v) == <<u[1] - v[1], u[2] - v[2], u[3] - v[3]>>
NormSq(v) == Dot(v, v)

\* the integer square root: the greatest r with r * r <= n
RECURSIVE ISqrtFrom(_, _)
ISqrtFrom(n, r) == IF (r + 1) * (r + 1) > n THEN r ELSE ISqrtFrom(n, r + 1)
ISqrt(n) == ISqrtFrom(n, 0)

Zero3 == <<0, 0, 0>>

\* the ego_vehicle argument None
NoneActor == [id |-> 0, location |-> Zero3, velocity |-> Zero3, forward |-> Zero3]

\* map.get_waypoint(...) answering None
NoWaypoint == [found |-> FALSE, location |-> Zero3, forward |-> Zero3]

NoDict ==
    [velocity_ego |-> NoneVal, num_passengers |-> NoneVal, lane_position |-> NoneVal,
     velocity_delta |-> NoneVal, has_lead_vehicle |-> FALSE]

-----------------------------------------------------------------------------
(* Configuration: config.get('extraction', {}) *)

DefaultMaxLaneOffset == Rat(7, 4)
DefaultMaxDetectionDistance == 50
DefaultDetectionAngle == 30
DefaultPassengers == 1

\* the configurations an extractor is constructed with: the first sets none
\* of the options the code reads (lane_width is never read)
Configs ==
    { ("lane_width" :> Rat(7, 2)),
      ("max_lane_offset" :> Rat(2, 1)) @@ ("max_detection_distance" :> 2) @@
          ("detection_angle" :> 90) @@ ("default_passengers" :> 3),
      ("max_lane_offset" :> Rat(1, 1)) @@ ("max_detection_distance" :> 2) }

\* dict.get(key, default)
CfgGet(key, default) == IF key \in DOMAIN config THEN config[key] ELSE default

-----------------------------------------------------------------------------
(* The world an operation is called in *)

Velocities == {<<3, 4, 0>>, <<1, 2, 2>>}

\* ego poses: <<location, forward vector>>; the forward vector need not be
\* a unit vector and may be the zero vector
EgoPoses ==
    { <<Zero3, <<1, 0, 0>>>>, <<<<1, 0, 0>>, <<1, 1, 0>>>>,
      <<<<0, 1, -1>>, <<0, 2, 1>>>>, <<Zero3, Zero3>> }

EgoId == 1
OtherIds == {2, 3}

Egos ==
    { [id |-> EgoId, location |-> p[1], velocity |-> v, forward |-> p[2]] :
        p \in EgoPoses, v \in Velocities }

Locations == (-1 .. GridMax) \X (-1 .. 1) \X {0}

Others ==
    { [id |-> i, location |-> l, velocity |-> v, forward |-> <<1, 0, 0>>] :
        i \in OtherIds, l \in Locations, v \in Velocities }

\* lists of other vehicles with distinct ids, in any order
NoOthers == {<< >>}
OneOther == { <<a>> : a \in Others }
TwoOthers == { <<p[1], p[2]>> : p \in { q \in Others \X Others : q[1].id # q[2].id } }

\* the vehicles of the world: the ego itself or not, then the others
WithOrWithoutEgo(ego, others) == others \cup { <<ego>> \o s : s \in others }

\* the worlds get_velocity_delta is called in, and the (smaller) ones the
\* assembling operations are called in
VehicleLists(ego) == WithOrWithoutEgo(ego, NoOthers \cup OneOther \cup TwoOthers)
FewVehicleLists(ego) == WithOrWithoutEgo(ego, NoOthers \cup OneOther)

\* the lane frames map.get_waypoint can answer, or None
Waypoints ==
    {NoWaypoint} \cup
    { [found |-> TRUE, location |-> c, forward |-> f] :
        c \in {Zero3, <<0, 1, 0>>, <<0, 5, 0>>, <<1, -2, 0>>},
        f \in {<<1, 0, 0>>, <<0, 1, 0>>, <<1, 1, 0>>} }

-----------------------------------------------------------------------------
(* StateExtractor: the methods *)

Return(v) == [exc |-> "return", val |-> v]
Raise(e) == [exc |-> e, val |-> NoneVal]

\* math.sqrt(v.x**2 + v.y**2 + v.z**2), exact on Velocities
Speed(velocity) == Int2Val(ISqrt(NormSq(velocity)))

\* a slip: the check of the ego vehicle is left out (the speed of nothing)
get_ego_velocity_mutant(ego) ==
    Return(Speed(IF ego = NoneActor THEN Zero3 ELSE ego.velocity))

get_ego_velocity(ego) ==
    IF ego = NoneActor THEN Raise("ValueError")
    ELSE Return(Speed(ego.velocity))

get_num_passengers(ego) ==
    IF ego = NoneActor THEN Raise("ValueError")
    ELSE Return(Int2Val(CfgGet("default_passengers", DefaultPassengers)))

\* Python's min(a, b) and max(a, b): the first argument unless the second
\* is strictly smaller (greater)
PyMin(a, b) == IF RatLT(b, a) THEN b ELSE a
PyMax(a, b) == IF RatLT(a, b) THEN b ELSE a

\* the local normalized_position of get_lane_position after its last line
NormalizedPosition(vehicle_location, wp) ==
    LET lane_center == wp.location
        dx == vehicle_location[1] - lane_center[1]
        dy == vehicle_location[2] - lane_center[2]
        right_x == -wp.forward[2]
        right_y == wp.forward[1]
        lateral_offset == dx * right_x + dy * right_y
        max_offset == CfgGet("max_lane_offset", DefaultMaxLaneOffset)
        normalized_position == RatDiv(Int2Val(lateral_offset), max_offset)
    IN  PyMax(Int2Val(-1), PyMin(Int2Val(1), normalized_position))

\* what get_lane_position hands back once normalized_position is computed:
\* the method ends there without a return statement, so Python returns None
LanePositionReturned(normalized_position) == NoneVal

\* a slip: the missing waypoint handed back as None
LanePositionNoWaypointMutant == NoneVal

\* what get_lane_position returns when the map finds no waypoint
LanePositionNoWaypoint == Rat(0, 1)

\* a slip: the check that the map is there is left out
get_lane_position_mutant(ego, wp) ==
    IF ego = NoneActor THEN Raise("ValueError")
    ELSE IF ~wp.found THEN Return(LanePositionNoWaypoint)
    ELSE Return(LanePositionReturned(NormalizedPosition(ego.location, wp)))

get_lane_position(ego, wp) ==
    IF ego = NoneActor THEN Raise("ValueError")
    ELSE IF map = "None" THEN Raise("RuntimeError")
    ELSE IF ~wp.found THEN Return(LanePositionNoWaypoint)
    ELSE Return(LanePositionReturned(NormalizedPosition(ego.location, wp)))

\* distance > max_distance, on squares (distance >= 0)
TooFar(distance_sq, max_distance) ==
    max_distance < 0 \/ distance_sq > max_distance * max_distance

\* a slip: only the vehicles strictly behind are skipped
BehindOrBesideMutant(dot_product) == dot_product < 0

\* dot_product <= 0: the vehicle is behind or beside
BehindOrBeside(dot_product) == dot_product <= 0

\* cos(detection_angle) squared, for the angles of Configs
CosSq(degrees) ==
    CASE degrees = 30 -> Rat(3, 4)
      [] degrees = 90 -> Rat(0, 1)

\* angle > detection_angle, where angle = degrees(acos(clamp(cos_angle))) and
\* cos_angle = dot_product / (ego_forward_mag * distance) > 0: acos decreases,
\* so this is cos_angle < cos(detection_angle), compared on squares
OutsideCone(dot_product, ego_forward_sq, distance_sq, detection_angle) ==
    RatLT(Rat(dot_product * dot_product, ego_forward_sq * distance_sq),
          CosSq(detection_angle))

\* the divisor ego_forward_mag * distance of line 170 is zero
DivisorZero(ego_forward_sq, distance_sq) == ego_forward_sq * distance_sq = 0

\* a slip: every surviving vehicle replaces the choice (the last one wins)
CloserMutant(distance_sq, min_distance) == TRUE

\* a slip: <= in the place of <, so that of equally near vehicles the last wins
CloserOrEqualMutant(distance_sq, min_distance) ==
    min_distance.inf \/ distance_sq <= min_distance.sq

\* distance < min_distance; min_distance starts as float('inf')
Closer(distance_sq, min_distance) ==
    min_distance.inf \/ distance_sq < min_distance.sq

\* the loop of _find_lead_vehicle from the i-th vehicle on: [exc, val], val
\* the closest vehicle (NoneActor for None)
RECURSIVE LeadLoop(_, _, _, _, _)
LeadLoop(ego, vehicles, i, closest_vehicle, min_distance) ==
    IF i > Len(vehicles) THEN [exc |-> "return", val |-> closest_vehicle]
    ELSE
        LET vehicle == vehicles[i]
            to_vehicle == Minus(vehicle.location, ego.location)
            distance_sq == NormSq(to_vehicle)
            dot_product == Dot(ego.forward, to_vehicle)
            ego_forward_sq == NormSq(ego.forward)
            max_distance == CfgGet("max_detection_distance", DefaultMaxDetectionDistance)
            detection_angle == CfgGet("detection_angle", DefaultDetectionAngle)
            continue == LeadLoop(ego, vehicles, i + 1, closest_vehicle, min_distance)
        IN  IF vehicle.id = ego.id THEN continue
            ELSE IF TooFar(distance_sq, max_distance) THEN continue
            ELSE IF BehindOrBeside(dot_product) THEN continue
            ELSE IF DivisorZero(ego_forward_sq, distance_sq)
                 THEN [exc |-> "ZeroDivisionError", val |-> NoneActor]
            ELSE IF OutsideCone(dot_product, ego_forward_sq, distance_sq, detection_angle)
                 THEN continue
            ELSE IF Closer(distance_sq, min_distance)
                 THEN LeadLoop(ego, vehicles, i + 1, vehicle,
                               [inf |-> FALSE, sq |-> distance_sq])
            ELSE continue

find_lead_vehicle(ego, vehicles) ==
    LeadLoop(ego, vehicles, 1, NoneActor, [inf |-> TRUE, sq |-> 0])

\* a slip: the operands swapped
VelocityDeltaMutant(ego_velocity, lead_speed) == RatSub(lead_speed, ego_velocity)

\* velocity_delta = ego_velocity - lead_speed
VelocityDelta(ego_velocity, lead_speed) == RatSub(ego_velocity, lead_speed)

get_velocity_delta(ego, vehicles) ==
    IF ego = NoneActor THEN Raise("ValueError")
    ELSE IF world = "None" THEN Raise("RuntimeError")
    ELSE
        LET lead == find_lead_vehicle(ego, vehicles)
        IN  IF lead.exc # "return" THEN Raise(lead.exc)
            ELSE IF lead.val = NoneActor THEN Return(NoneVal)
            ELSE Return(VelocityDelta(get_ego_velocity(ego).val,
                                      Speed(lead.val.velocity)))

\* the map and the world are asked only by a call that has an ego and
\* finds the extractor initialized (lines 60-68 and 97-103)
Queried(ego) == ego # NoneActor /\ map # "None" /\ world # "None"
WaypointSeen(ego, wp) == IF Queried(ego) THEN wp ELSE NoWaypoint
VehiclesSeen(ego, vehicles) == IF Queried(ego) THEN vehicles ELSE << >>

\* the lead_vehicle local of get_velocity_delta, None when it is not reached
LeadOf(ego, vehicles) ==
    IF Queried(ego) THEN find_lead_vehicle(ego, vehicles).val ELSE NoneActor

\* an element of np.array(..., dtype=np.float32): None becomes NaN
Float32(v) == IF v.k = "None" THEN NaNVal ELSE v

\* the dimension Validator.validate expects
ExpectedDim == 40

\* a change: the array padded with 0.0 to the validator's dimension
StateArrayMutant(velocity, passengers, lane_pos, vel_delta) ==
    <<Float32(velocity), Float32(passengers), Float32(lane_pos), Float32(vel_delta)>>
        \o [i \in 1 .. ExpectedDim - 4 |-> Rat(0, 1)]

\* np.array([velocity, float(passengers), lane_pos, vel_delta], dtype=np.float32)
StateArray(velocity, passengers, lane_pos, vel_delta) ==
    <<Float32(velocity), Float32(passengers), Float32(lane_pos), Float32(vel_delta)>>

\* if vel_delta is None: vel_delta = 0.0
DeltaOrZero(vel_delta) == IF vel_delta = NoneVal THEN Rat(0, 1) ELSE vel_delta

\* extract_basic_state: [exc, val], val the array (<< >> when it raises)
extract_basic_state(ego, vehicles, wp) ==
    IF ego = NoneActor THEN [exc |-> "ValueError", val |-> << >>]
    ELSE
        LET velocity == get_ego_velocity(ego)
            passengers == get_num_passengers(ego)
            lane_pos == get_lane_position(ego, wp)
            vel_delta == get_velocity_delta(ego, vehicles)
        IN  IF lane_pos.exc # "return" THEN [exc |-> lane_pos.exc, val |-> << >>]
            ELSE IF vel_delta.exc # "return" THEN [exc |-> vel_delta.exc, val |-> << >>]
            ELSE [exc |-> "return",
                  val |-> StateArray(velocity.val, passengers.val, lane_pos.val,
                                     DeltaOrZero(vel_delta.val))]

\* get_state_dict: [exc, val], val the dict (NoDict when it raises)
get_state_dict(ego, vehicles, wp) ==
    LET velocity == get_ego_velocity(ego)
        passengers == get_num_passengers(ego)
        lane_pos == get_lane_position(ego, wp)
        vel_delta == get_velocity_delta(ego, vehicles)
    IN  IF velocity.exc # "return" THEN [exc |-> velocity.exc, val |-> NoDict]
        ELSE IF passengers.exc # "return" THEN [exc |-> passengers.exc, val |-> NoDict]
        ELSE IF lane_pos.exc # "return" THEN [exc |-> lane_pos.exc, val |-> NoDict]
        ELSE IF vel_delta.exc # "return" THEN [exc |-> vel_delta.exc, val |-> NoDict]
        ELSE [exc |-> "return",
              val |-> [velocity_ego |-> velocity.val,
                       num_passengers |-> passengers.val,
                       lane_position |-> lane_pos.val,
                       velocity_delta |-> vel_delta.val,
                       has_lead_vehicle |-> vel_delta.val # NoneVal]]

-----------------------------------------------------------------------------
(* Validator: pipeline/src/validation/validator.py *)

\* what a list handed to validate() may hold besides floats, None and NaN:
\* a string that is no number ('abc') and a string that spells one ('60.0')
StrVal == [k |-> "str", n |-> 0, d |-> 1]
NumStr(n, d) == [k |-> "numstr", n |-> n, d |-> d]

\* the number of obstacle slots named in feature_order
NumObstacles == 33

feature_order ==
    <<"velocity_ego", "num_passengers", "lane_position", "velocity_delta",
      "num_ped_if_straight", "num_ped_if_left", "num_ped_if_right">>
    \o [i \in 1 .. NumObstacles |-> "obstacle_" \o ToString(i - 1)]

\* the 'validation' sections the configuration file may hold
NoRanges == [key \in {} |-> <<Rat(0, 1), Rat(0, 1)>>]

RangeConfigs ==
    { NoRanges,
      ("velocity_ego_range" :> <<Rat(0, 1), Rat(50, 1)>>) @@
          ("lane_position_range" :> <<Rat(-1, 1), Rat(1, 1)>>),
      ("velocity_ego_range" :> <<Rat(0, 1), Rat(50, 1)>>) @@
          ("obstacle_32_range" :> <<Rat(0, 1), Rat(1, 1)>>) @@
          ("speed_range" :> <<Rat(100, 1), Rat(200, 1)>>) }

\* how validate() ends: it returns True or raises exc; check names the
\* statement that raised, feature and detail what its message names
ValidationResult(exc, check, feature, detail) ==
    [exc |-> exc, check |-> check, feature |-> feature, detail |-> detail]

NoValidation ==
    [op |-> "none", state |-> << >>,
     result |-> ValidationResult("none", "", "", << >>)]

\* np.asarray(state, dtype=float), element by element: a float stays, None
\* becomes NaN, a string that spells a number becomes that number, and any
\* other string makes the conversion raise ValueError
Convertible(x) == x.k # "str"

AsFloat(x) ==
    IF x.k = "num" THEN x
    ELSE IF x.k = "numstr" THEN Rat(x.n, x.d)
    ELSE NaNVal

AsArray(st) == [i \in 1 .. Len(st) |-> AsFloat(st[i])]

\* a slip: only the vectors that are too short are turned away
DimensionMismatchMutant(n) == n < ExpectedDim

\* vector.shape[0] != self.expected_dim
DimensionMismatch(n) == n # ExpectedDim

\* a slip: .all() in the place of .any()
HasNaNMutant(vector) ==
    Len(vector) > 0 /\ \A i \in 1 .. Len(vector) : vector[i] = NaNVal

\* np.isnan(vector).any()
HasNaN(vector) == \E i \in 1 .. Len(vector) : vector[i] = NaNVal

\* a slip: the bounds themselves are turned away
InRangeMutant(low, value, high) == RatLT(low, value) /\ RatLT(value, high)

\* low <= value <= high
InRange(low, value, high) == RatLE(low, value) /\ RatLE(value, high)

\* f"{feature_name}_range"
RangeKey(feature_name) == feature_name \o "_range"

\* the body of the loop at position idx (counted from 1) raises
RangeViolated(vector, idx) ==
    /\ idx <= Len(feature_order)
    /\ RangeKey(feature_order[idx]) \in DOMAIN ranges
    /\ ~InRange(ranges[RangeKey(feature_order[idx])][1], vector[idx],
                ranges[RangeKey(feature_order[idx])][2])

\* the first position at which the loop raises, 0 when it runs to its end
FirstRangeViolation(vector) ==
    IF \E idx \in 1 .. Len(vector) : RangeViolated(vector, idx)
    THEN CHOOSE idx \in 1 .. Len(vector) :
            /\ RangeViolated(vector, idx)
            /\ \A j \in 1 .. idx - 1 : ~RangeViolated(vector, j)
    ELSE 0

\* isinstance(x, (int, float, np.floating, np.integer)) for an element of the
\* converted array: every element of a float array is an np.float64
IsNumericType(x) == x.k \in {"num", "NaN"}

validate(st) ==
    IF \E i \in 1 .. Len(st) : ~Convertible(st[i])
    THEN ValidationResult("ValueError", "conversion", "", << >>)
    ELSE
    LET vector == AsArray(st)
        idx == FirstRangeViolation(vector)
        range_key == RangeKey(feature_order[idx])
    IN  IF DimensionMismatch(Len(vector))
        THEN ValidationResult("ValueError", "dimension", "",
                              <<Int2Val(ExpectedDim), Int2Val(Len(vector))>>)
        ELSE IF HasNaN(vector)
        THEN ValidationResult("ValueError", "NaN", "", << >>)
        ELSE IF idx # 0
        THEN ValidationResult("ValueError", "range", feature_order[idx],
                              <<vector[idx], ranges[range_key][1],
                                ranges[range_key][2]>>)
        ELSE IF \E i \in 1 .. Len(vector) : ~IsNumericType(vector[i])
        THEN ValidationResult("TypeError", "type", "", << >>)
        ELSE ValidationResult("return", "", "", << >>)

\* the lists handed to validate(): zeros, but for the slots of velocity_ego,
\* lane_position and obstacle_32 (where the list is long enough)
Elements ==
    { Rat(0, 1), Rat(-2, 1), Rat(1, 2), Rat(30, 1), Rat(50, 1), Rat(60, 1),
      NaNVal, NoneVal, StrVal, NumStr(60, 1) }

Lengths == (ExpectedDim - LenSlack) .. (ExpectedDim + LenSlack)

StateList(len, a, b, c) ==
    [i \in 1 .. len |->
        IF i = 1 THEN a
        ELSE IF i = 3 THEN b
        ELSE IF i = ExpectedDim THEN c
        ELSE Rat(0, 1)]

StateLists ==
    { StateList(len, a, b, c) : len \in Lengths, a \in Elements,
                                b \in Elements, c \in Elements }

-----------------------------------------------------------------------------
(* Statistics: pipeline/src/validation/statistics.py                       *)
(*                                                                         *)
(* The samples are arrays of floats and summary() computes with floats, so *)
(* here every arithmetic result is rounded: a float is a rational whose    *)
(* significand has Precision bits, and a result is rounded to the nearest  *)
(* float, a tie to the even significand, as IEEE 754 does with 53 bits.    *)
(* The exponent is not bounded (no overflow, no underflow).                *)

RatAdd(a, b) == Rat(a.n * b.d + b.n * a.d, a.d * b.d)
RatMul(a, b) == Rat(a.n * b.n, a.d * b.d)
RatNeg(a) == Rat(-a.n, a.d)
RatAbs(a) == Rat(Abs(a.n), a.d)

\* the float nearest to n/d, for n > 0 and d > 0
RECURSIVE RoundMag(_, _)
RoundMag(n, d) ==
    IF n >= (2 ^ Precision) * d
    THEN RatMul(Rat(2, 1), RoundMag(n, 2 * d))
    ELSE IF n < (2 ^ (Precision - 1)) * d
    THEN RatMul(Rat(1, 2), RoundMag(2 * n, d))
    ELSE LET m == n \div d
             r == n % d
         IN  IF 2 * r > d \/ (2 * r = d /\ m % 2 = 1)
             THEN Rat(m + 1, 1)
             ELSE Rat(m, 1)

Round(q) ==
    IF q.n = 0 THEN q
    ELSE IF q.n < 0 THEN RatNeg(RoundMag(-q.n, q.d))
    ELSE RoundMag(q.n, q.d)

\* the float nearest to the square root of n/d, for n > 0 and d > 0
RECURSIVE SqrtMag(_, _)
SqrtMag(n, d) ==
    IF n >= (4 ^ Precision) * d
    THEN RatMul(Rat(2, 1), SqrtMag(n, 4 * d))
    ELSE IF n < (4 ^ (Precision - 1)) * d
    THEN RatMul(Rat(1, 2), SqrtMag(4 * n, d))
    ELSE LET m == CHOOSE i \in 2 ^ (Precision - 1) .. 2 ^ Precision - 1 :
                      i * i * d <= n /\ (i + 1) * (i + 1) * d > n
             half == (2 * m + 1) * (2 * m + 1) * d
         IN  IF half < 4 * n \/ (half = 4 * n /\ m % 2 = 1)
             THEN Rat(m + 1, 1)
             ELSE Rat(m, 1)

\* float addition, subtraction, multiplication, division and square root
FAdd(a, b) == Round(RatAdd(a, b))
FSub(a, b) == Round(RatSub(a, b))
FMul(a, b) == Round(RatMul(a, b))
FDiv(a, b) == Round(RatDiv(a, b))
FSqrt(a) == IF a.n = 0 THEN a ELSE SqrtMag(a.n, a.d)

\* the vectors handed to update()
StatVectors ==
    { <<Rat(3, 1), Rat(1, 1)>>, <<Rat(5, 1), Rat(3, 2)>> }

\* the paths handed to save() and load()
Paths == {"stats_a.json", "stats_b.json"}

\* np.asarray(state_vector, dtype=float) on a vector of numbers
AsFloatArray(state_vector) ==
    [j \in 1 .. Len(state_vector) |-> Round(state_vector[j])]

\* self.samples.append(np.asarray(state_vector, dtype=float))
update(smp, state_vector) == Append(smp, AsFloatArray(state_vector))

\* data[:, j] of data = np.vstack(self.samples)
Column(data, j) == [i \in 1 .. Len(data) |-> data[i][j]]

\* the sum of a column: np.add.reduce along axis 0 adds row after row
RECURSIVE ColumnSum(_, _)
ColumnSum(col, upto) ==
    IF upto = 1 THEN col[1]
    ELSE FAdd(ColumnSum(col, upto - 1), col[upto])

\* data.shape[0]
NumRows(data) == Len(data)

\* a slip: the sum is divided by the number of features, data.shape[1]
ColumnMeanMutant(data, j) ==
    FDiv(ColumnSum(Column(data, j), Len(data)), Int2Val(Len(data[1])))

\* data.mean(axis=0)[j]: the sum divided by the number of rows
ColumnMean(data, j) ==
    FDiv(ColumnSum(Column(data, j), Len(data)), Int2Val(NumRows(data)))

\* data.std(axis=0)[j]: sqrt(mean(abs(x - x.mean()) ** 2))
ColumnStd(data, j) ==
    LET arrmean == ColumnMean(data, j)
        x == [i \in 1 .. Len(data) |-> FSub(data[i][j], arrmean)]
        sq == [i \in 1 .. Len(data) |-> FMul(x[i], x[i])]
    IN  FSqrt(FDiv(ColumnSum(sq, Len(data)), Int2Val(NumRows(data))))

\* data.min(axis=0)[j] and data.max(axis=0)[j]
ColumnMin(data, j) ==
    CHOOSE v \in {data[i][j] : i \in 1 .. Len(data)} :
        \A i \in 1 .. Len(data) : RatLE(v, data[i][j])

ColumnMax(data, j) ==
    CHOOSE v \in {data[i][j] : i \in 1 .. Len(data)} :
        \A i \in 1 .. Len(data) : RatLE(data[i][j], v)

\* the empty dict {}
EmptyDict == << >>

\* a slip: the count is taken from the other axis, data.shape[1]
SampleCountMutant(data) == Len(data[1])

\* int(data.shape[0])
SampleCount(data) == NumRows(data)

summary(smp) ==
    IF smp = << >> THEN EmptyDict
    ELSE LET data == smp
             features == 1 .. Len(data[1])
         IN  [mean |-> [j \in features |-> ColumnMean(data, j)],
              std |-> [j \in features |-> ColumnStd(data, j)],
              min |-> [j \in features |-> ColumnMin(data, j)],
              max |-> [j \in features |-> ColumnMax(data, j)],
              count |-> SampleCount(data)]

\* JSON text: an int is written with its digits, a float with the shortest
\* decimal that reads back as the same float, a list as an array, a dict
\* as an object
JInt(i) == [tok |-> "int", n |-> i, d |-> 1]
JReal(x) == [tok |-> "real", n |-> x.n, d |-> x.d]
JArray(list) == [j \in 1 .. Len(list) |-> JReal(list[j])]

\* json.dump(self.summary(), f, indent=2)
JsonDump(obj) ==
    IF obj = EmptyDict THEN [tok |-> "object", members |-> << >>]
    ELSE [tok |-> "object",
          members |-> [mean |-> JArray(obj.mean), std |-> JArray(obj.std),
                       min |-> JArray(obj.min), max |-> JArray(obj.max),
                       count |-> JInt(obj.count)]]

\* a slip: the fraction of a number is dropped (parse_float=int)
ParseRealMutant(t) == Rat(t.n \div t.d, 1)

\* int(text) of a number written without a decimal point
ParseInt(t) == t.n

\* float(text) of a number written with a decimal point
ParseReal(t) == Round(Rat(t.n, t.d))

ParseArray(arr) == [j \in 1 .. Len(arr) |-> ParseReal(arr[j])]

\* json.load(f)
JsonLoad(text) ==
    IF text.members = << >> THEN EmptyDict
    ELSE [mean |-> ParseArray(text.members.mean),
          std |-> ParseArray(text.members.std),
          min |-> ParseArray(text.members.min),
          max |-> ParseArray(text.members.max),
          count |-> ParseInt(text.members.count)]

\* no file at a path
NoFile == [tok |-> "absent", members |-> << >>]

\* nothing returned yet
NoResult == [k |-> "None", n |-> 0, d |-> 1]

StatCall(name, path, exc) == [op |-> name, path |-> path, exc |-> exc]

\* no Statistics object has been constructed and no file written
NoStatistics ==
    /\ samples = << >>
    /\ files = [path \in Paths |-> NoFile]
    /\ stat_call = StatCall("none", "", "none")
    /\ summary_ret = NoResult
    /\ loaded = NoResult
    /\ updates = 0
    /\ saved = [path \in Paths |-> NoResult]

-----------------------------------------------------------------------------
(* CarlaConnector: pipeline/src/env/carla_connector.py *)

\* the 'carla' sections of the configuration file
ConnectorConfigs ==
    { [host |-> "localhost", port |-> 2000, timeout |-> 10,
       synchronous_mode |-> TRUE, fixed_delta_seconds |-> Rat(1, 20)],
      [host |-> "localhost", port |-> 2000, timeout |-> 10,
       synchronous_mode |-> FALSE, fixed_delta_seconds |-> NoneVal],
      [host |-> "localhost", port |-> 9999, timeout |-> 2,
       synchronous_mode |-> TRUE, fixed_delta_seconds |-> Rat(1, 20)] }

\* CarlaConnector.__init__: the configuration is kept, nothing is connected
NewConnector(cfg) ==
    [config |-> cfg, client |-> "None", world |-> "None",
     blueprint_library |-> "None", map |-> "None"]

\* the settings of a simulator nobody has configured
DefaultSettings == [synchronous_mode |-> FALSE, fixed_delta_seconds |-> NoneVal]

\* the settings the simulator can be in when the connector is constructed
SimulatorSettings ==
    { DefaultSettings,
      [synchronous_mode |-> TRUE, fixed_delta_seconds |-> Rat(1, 10)] }

\* a call on the connector: its name, what it raised, what it returned
ConnCall(name, exc, r) == [op |-> name, exc |-> exc, ret |-> r]

\* the calls of connect() on the simulator that can raise RuntimeError, in
\* the order connect() makes them
ConnectSteps ==
    <<"get_world", "get_blueprint_library", "get_map", "get_settings",
      "apply_settings">>

\* the call at position n of connect() returned: no earlier call raised
Passed(failing, n) ==
    \/ failing = "none"
    \/ \E i \in DOMAIN ConnectSteps : ConnectSteps[i] = failing /\ n < i

\* the fields of the connector when connect() leaves, by return or by raise
Connected(c, failing) ==
    [c EXCEPT !.client = "Client",
              !.world = IF Passed(failing, 1) THEN "World" ELSE @,
              !.blueprint_library =
                  IF Passed(failing, 2) THEN "BlueprintLibrary" ELSE @,
              !.map = IF Passed(failing, 3) THEN "Map" ELSE @]

\* the settings of the world when connect() leaves
Applied(c, current, failing) ==
    IF Passed(failing, 5)
    THEN [current EXCEPT !.synchronous_mode = c.config.synchronous_mode,
                         !.fixed_delta_seconds = c.config.fixed_delta_seconds]
    ELSE current

\* get_world, get_blueprint_library, get_map: the field, unless it is None
Getter(c, field) ==
    IF c[field] = "None"
    THEN ConnCall("get_" \o field, "RuntimeError", "None")
    ELSE ConnCall("get_" \o field, "none", c[field])

\* no CarlaConnector has been constructed
NoConnector ==
    /\ connector = NewConnector(<< >>)
    /\ settings = DefaultSettings
    /\ conn_call = ConnCall("none", "none", "None")
    /\ connected_once = FALSE

-----------------------------------------------------------------------------
(* MockPedestrianGenerator: pipeline/src/env/mock_pedestrian.py *)

MaxCount == 2       \* the largest count passed to spawn_pedestrians
MaxEvents == 3      \* the actors spawned plus the clear() calls of a run

\* the ids the simulator gives to the actors it spawns
ActorIds == {11, 12, 13}

AttributeNames == {"is_child", "is_elderly", "is_pregnant", "is_disabled"}

DEFAULT_PROBABILITIES ==
    [is_child |-> Rat(1, 10), is_elderly |-> Rat(1, 10),
     is_pregnant |-> Rat(1, 20), is_disabled |-> Rat(1, 20)]

\* _validate_probabilities: the known keys of probs replace the defaults;
\* the result, or "ValueError" when a probability is outside [0, 1]
validate_probabilities(probs) ==
    LET merged == [key \in AttributeNames |->
                      IF key \in DOMAIN probs THEN probs[key]
                      ELSE DEFAULT_PROBABILITIES[key]]
    IN  IF \E key \in AttributeNames :
               ~(RatLE(Rat(0, 1), merged[key]) /\ RatLE(merged[key], Rat(1, 1)))
        THEN "ValueError"
        ELSE merged

\* the 'probabilities' arguments the generator is constructed with
ProbabilityArguments ==
    { [is_elderly |-> Rat(0, 1), is_pregnant |-> Rat(0, 1), is_disabled |-> Rat(0, 1)],
      [is_child |-> Rat(1, 1), is_elderly |-> Rat(1, 2), is_pregnant |-> Rat(0, 1),
       is_disabled |-> Rat(1, 1), is_tall |-> Rat(1, 1)] }

\* _generate_attributes: rng.random() is in [0, 1), so a flag can be True
\* only if its probability is above 0 and False only if it is below 1
generate_attributes(probs) ==
    { a \in [AttributeNames -> BOOLEAN] :
        \A key \in AttributeNames :
            /\ a[key] => RatLT(Rat(0, 1), probs[key])
            /\ ~a[key] => RatLT(probs[key], Rat(1, 1)) }

\* an actor of the simulator
Actor(i) == [id |-> i]

\* one round of the loop of spawn_pedestrians: the actor spawned with its
\* attributes, or what made the round raise
Spawned(i, a) == [outcome |-> "spawned", actor |-> Actor(i), attributes |-> a]
Raised(what) == [outcome |-> what, actor |-> Actor(0), attributes |-> NoneVal]

\* the rounds that raise: no location from the navigation mesh, asked only
\* when the spawn points are used up, or spawn_actor raising
Failures(index, n_points) ==
    {Raised("spawn_failed")}
        \cup (IF index < n_points THEN {} ELSE {Raised("no_location")})

\* the courses the loop of spawn_pedestrians can take from round 'index' on:
\* it stops at the first round that raises
RECURSIVE SpawnScripts(_, _, _, _)
SpawnScripts(index, count, n_points, probs) ==
    IF index >= count THEN {<< >>}
    ELSE {<<f>> : f \in Failures(index, n_points)}
         \cup {<<Spawned(i, a)>> \o rest :
                 i \in ActorIds, a \in generate_attributes(probs),
                 rest \in SpawnScripts(index + 1, count, n_points, probs)}

\* self._attributes_by_actor_id[actor.id] = attributes
StoreAttributes(d, actor, a) ==
    [i \in DOMAIN d \cup {actor.id} |-> IF i = actor.id THEN a ELSE d[i]]

PedCall(name, arg, exc, r) == [op |-> name, arg |-> arg, exc |-> exc, ret |-> r]

\* the loop of spawn_pedestrians over a course: the dictionary and the list
\* 'spawned' when the loop leaves, and the exception it leaves with
RECURSIVE SpawnLoop(_, _, _)
SpawnLoop(d, spawned, script) ==
    IF script = << >> THEN [dict |-> d, exc |-> "none", ret |-> spawned]
    ELSE IF Head(script).outcome # "spawned"
    THEN [dict |-> d, exc |-> "RuntimeError", ret |-> << >>]
    ELSE SpawnLoop(StoreAttributes(d, Head(script).actor,
                                   Head(script).attributes),
                   Append(spawned, <<Head(script).actor,
                                     Head(script).attributes>>),
                   Tail(script))

\* spawn_pedestrians(count, spawn_points)
spawn_pedestrians(d, count, blueprints, script) ==
    IF count <= 0 THEN [dict |-> d, exc |-> "none", ret |-> << >>]
    ELSE IF blueprints = << >>
    THEN [dict |-> d, exc |-> "RuntimeError", ret |-> << >>]
    ELSE SpawnLoop(d, << >>, script)

\* get_attributes(actor_or_id): an int is the id, anything else has an id
get_attributes(d, actor_or_id) ==
    LET actor_id == IF actor_or_id.isinstance = "int" THEN actor_or_id.value
                    ELSE actor_or_id.value.id
    IN  IF actor_id \in DOMAIN d THEN d[actor_id] ELSE NoneVal

clear_mutant(d) == d

\* clear()
clear(d) == << >>

\* the arguments of get_attributes: an id, or an actor
IntArg(i) == [isinstance |-> "int", value |-> i]
ActorArg(i) == [isinstance |-> "Actor", value |-> Actor(i)]

\* no MockPedestrianGenerator has been constructed
NoPedestrians ==
    /\ probabilities = << >>
    /\ walker_blueprints = << >>
    /\ attributes_by_actor_id = << >>
    /\ ped_call = PedCall("none", 0, "none", NoneVal)
    /\ assignments = << >>

-----------------------------------------------------------------------------
(* The batch validation script: pipeline/src/scripts/validate.py *)

MaxBatch == 2       \* the largest number of rows of the array loaded

\* a row of a float array: zeros but for velocity_ego and lane_position
Row(len, a, b) ==
    [i \in 1 .. len |-> IF i = 1 THEN a ELSE IF i = 3 THEN b ELSE Rat(0, 1)]

\* the rows an array holds; every row of an array has the array's width
Rows(len) ==
    { Row(len, Rat(48, 1), Rat(0, 1)), Row(len, Rat(0, 1), Rat(1, 2)),
      Row(len, Rat(56, 1), Rat(0, 1)), Row(len, NaNVal, Rat(0, 1)),
      Row(len, Rat(48, 1), Rat(-2, 1)) }

\* np.load(args.input): the two-dimensional float arrays of at most
\* MaxBatch rows
RECURSIVE Arrays(_, _)
Arrays(len, n) ==
    IF n = 0 THEN {<< >>}
    ELSE Arrays(len, n - 1)
         \cup {Append(a, r) : a \in {b \in Arrays(len, n - 1) : Len(b) = n - 1},
                             r \in Rows(len)}

\* except (ValueError, TypeError)
Caught(exc) == exc \in {"ValueError", "TypeError"}

FoldMutant(smp, result, state_vector) ==
    IF result.exc = "TypeError" THEN smp ELSE update(smp, state_vector)

\* the try block: stats.update(state) is reached only if validate returned
Fold(smp, result, state_vector) ==
    IF result.exc = "return" THEN update(smp, state_vector) ELSE smp

\* the except clause: errors.append(f"State {idx}: {str(e)}")
Record(errs, i, result) ==
    IF Caught(result.exc) THEN Append(errs, [idx |-> i, e |-> result])
    ELSE errs

NoReport == [failed |-> FALSE, invalid |-> 0, total |-> 0, lines |-> << >>,
             summary |-> NoResult]

\* the report file: the verdict, the counts, the error lines, the summary
Report(errs, sts, stats) ==
    [failed |-> errs # << >>,
     invalid |-> IF errs # << >> THEN Len(errs) ELSE 0,
     total |-> Len(sts),
     lines |-> errs,
     summary |-> stats]

\* the script has not been started
NoDriver ==
    /\ states = << >>
    /\ next_idx = 0
    /\ errors = << >>
    /\ report = NoReport
    /\ driver_pc = "none"
    /\ processed = << >>

\* none of the objects added to the three above has been constructed
NothingElse == NoConnector /\ NoPedestrians /\ NoDriver

-----------------------------------------------------------------------------
(* The state machine of the extractor: one action per public operation *)

\* no Validator has been constructed
NoValidator == ranges = NoRanges /\ validation = NoValidation

Init ==
    /\ config \in Configs
    /\ world = "None"
    /\ map = "None"
    /\ op = "none"
    /\ ego_vehicle = NoneActor
    /\ all_vehicles = << >>
    /\ waypoint = NoWaypoint
    /\ lead_vehicle = NoneActor
    /\ outcome = "none"
    /\ ret = NoneVal
    /\ state = << >>
    /\ state_dict = NoDict
    /\ NoValidator
    /\ NoStatistics
    /\ NothingElse

\* A call is made by a caller that holds no earlier result (Idle);
\* what the call leaves behind is held until the caller drops it (Forget).
\* The operations read the extractor's fields and the world and write only
\* in initialize(), so every state a sequence of calls reaches is reached.
Idle == op = "none"

Called(name, ego, vehicles, wp, lead, exc, r, arr, dict) ==
    /\ op' = name
    /\ ego_vehicle' = ego
    /\ all_vehicles' = vehicles
    /\ waypoint' = wp
    /\ lead_vehicle' = lead
    /\ outcome' = exc
    /\ ret' = r
    /\ state' = arr
    /\ state_dict' = dict
    /\ UNCHANGED validator_vars
    /\ UNCHANGED statistics_vars
    /\ UNCHANGED other_vars

\* initialize(): connector.get_world() raises RuntimeError while the
\* connector is not connected; otherwise world and map are set
Initialize ==
    /\ Idle
    /\ \E connected \in BOOLEAN :
        /\ world' = IF connected THEN "World" ELSE world
        /\ map' = IF connected THEN "Map" ELSE map
        /\ Called("initialize", NoneActor, << >>, NoWaypoint, NoneActor,
                  IF connected THEN "return" ELSE "RuntimeError",
                  NoneVal, << >>, NoDict)
        /\ UNCHANGED config

GetEgoVelocity ==
    /\ Idle
    /\ \E ego \in Egos \cup {NoneActor} :
        LET r == get_ego_velocity(ego)
        IN  /\ Called("get_ego_velocity", ego, << >>, NoWaypoint, NoneActor,
                      r.exc, r.val, << >>, NoDict)
            /\ UNCHANGED <<config, world, map>>

GetNumPassengers ==
    /\ Idle
    /\ \E ego \in Egos \cup {NoneActor} :
        LET r == get_num_passengers(ego)
        IN  /\ Called("get_num_passengers", ego, << >>, NoWaypoint, NoneActor,
                      r.exc, r.val, << >>, NoDict)
            /\ UNCHANGED <<config, world, map>>

GetLanePosition ==
    /\ Idle
    /\ \E ego \in Egos \cup {NoneActor}, wp \in Waypoints :
        LET r == get_lane_position(ego, wp)
        IN  /\ Called("get_lane_position", ego, << >>, WaypointSeen(ego, wp), NoneActor,
                      r.exc, r.val, << >>, NoDict)
            /\ UNCHANGED <<config, world, map>>

GetVelocityDelta ==
    /\ Idle
    /\ \E ego \in Egos \cup {NoneActor} :
        \E vehicles \in VehicleLists(ego) :
            LET r == get_velocity_delta(ego, vehicles)
            IN  /\ Called("get_velocity_delta", ego, VehiclesSeen(ego, vehicles), NoWaypoint,
                          LeadOf(ego, vehicles), r.exc, r.val, << >>, NoDict)
                /\ UNCHANGED <<config, world, map>>

ExtractBasicState ==
    /\ Idle
    /\ \E ego \in Egos \cup {NoneActor}, wp \in Waypoints :
        \E vehicles \in FewVehicleLists(ego) :
            LET r == extract_basic_state(ego, vehicles, wp)
            IN  /\ Called("extract_basic_state", ego, VehiclesSeen(ego, vehicles),
                          WaypointSeen(ego, wp),
                          LeadOf(ego, vehicles), r.exc, NoneVal, r.val, NoDict)
                /\ UNCHANGED <<config, world, map>>

GetStateDict ==
    /\ Idle
    /\ \E ego \in Egos \cup {NoneActor}, wp \in Waypoints :
        \E vehicles \in FewVehicleLists(ego) :
            LET r == get_state_dict(ego, vehicles, wp)
            IN  /\ Called("get_state_dict", ego, VehiclesSeen(ego, vehicles),
                          WaypointSeen(ego, wp),
                          LeadOf(ego, vehicles), r.exc, NoneVal, << >>, r.val)
                /\ UNCHANGED <<config, world, map>>

\* the caller drops the result and the world moves on to the next tick
Forget ==
    /\ op # "none"
    /\ op' = "none"
    /\ ego_vehicle' = NoneActor
    /\ all_vehicles' = << >>
    /\ waypoint' = NoWaypoint
    /\ lead_vehicle' = NoneActor
    /\ outcome' = "none"
    /\ ret' = NoneVal
    /\ state' = << >>
    /\ state_dict' = NoDict
    /\ UNCHANGED <<config, world, map>>
    /\ UNCHANGED validator_vars
    /\ UNCHANGED statistics_vars
    /\ UNCHANGED other_vars

Next ==
    \/ Forget
    \/ Initialize
    \/ GetEgoVelocity
    \/ GetNumPassengers
    \/ GetLanePosition
    \/ GetVelocityDelta
    \/ ExtractBasicState
    \/ GetStateDict

Spec == Init /\ [][Next]_vars

-----------------------------------------------------------------------------
(* The state machine of the validator: validate() is called on one list    *)
(* after the other, as the loop of scripts/validate.py does                *)

\* no StateExtractor has been constructed
NoExtractor ==
    /\ config = << >>
    /\ world = "None"
    /\ map = "None"
    /\ op = "none"
    /\ ego_vehicle = NoneActor
    /\ all_vehicles = << >>
    /\ waypoint = NoWaypoint
    /\ lead_vehicle = NoneActor
    /\ outcome = "none"
    /\ ret = NoneVal
    /\ state = << >>
    /\ state_dict = NoDict

\* Validator(config_path): the ranges are read from the configuration file
InitValidator ==
    /\ ranges \in RangeConfigs
    /\ validation = NoValidation
    /\ NoExtractor
    /\ NoStatistics
    /\ NothingElse

Validate ==
    /\ validation.op = "none"
    /\ \E st \in StateLists :
        validation' = [op |-> "validate", state |-> st, result |-> validate(st)]
    /\ UNCHANGED ranges
    /\ UNCHANGED extractor_vars
    /\ UNCHANGED statistics_vars
    /\ UNCHANGED other_vars

\* the loop goes on to the next list
ForgetValidation ==
    /\ validation.op # "none"
    /\ validation' = NoValidation
    /\ UNCHANGED ranges
    /\ UNCHANGED extractor_vars
    /\ UNCHANGED statistics_vars
    /\ UNCHANGED other_vars

NextValidator ==
    \/ Validate
    \/ ForgetValidation

SpecValidator == InitValidator /\ [][NextValidator]_vars

-----------------------------------------------------------------------------
(* The state machine of the statistics: one action per method *)

\* Statistics(): no samples; nothing has been saved
InitStatistics ==
    /\ NoStatistics
    /\ NoExtractor
    /\ NoValidator
    /\ NothingElse

Update ==
    /\ Len(samples) < MaxSamples
    /\ \E state_vector \in StatVectors :
        samples' = update(samples, state_vector)
    /\ updates' = updates + 1
    /\ stat_call' = StatCall("update", "", "return")
    /\ loaded' = NoResult
    /\ UNCHANGED <<files, summary_ret, saved>>
    /\ UNCHANGED <<extractor_vars, validator_vars, other_vars>>

Summary ==
    /\ summary_ret' = summary(samples)
    /\ stat_call' = StatCall("summary", "", "return")
    /\ loaded' = NoResult
    /\ UNCHANGED <<samples, files, updates, saved>>
    /\ UNCHANGED <<extractor_vars, validator_vars, other_vars>>

Save ==
    /\ \E filepath \in Paths, stats \in {summary(samples)} :
        /\ files' = [files EXCEPT ![filepath] = JsonDump(stats)]
        /\ saved' = [saved EXCEPT ![filepath] = stats]
        /\ stat_call' = StatCall("save", filepath, "return")
    /\ loaded' = NoResult
    /\ UNCHANGED <<samples, summary_ret, updates>>
    /\ UNCHANGED <<extractor_vars, validator_vars, other_vars>>

\* a slip: load() also starts the accumulation afresh
LoadMutant ==
    /\ \E filepath \in Paths :
        IF files[filepath] = NoFile
        THEN /\ stat_call' = StatCall("load", filepath, "FileNotFoundError")
             /\ loaded' = NoResult
             /\ samples' = samples
        ELSE /\ stat_call' = StatCall("load", filepath, "return")
             /\ loaded' = JsonLoad(files[filepath])
             /\ samples' = << >>
    /\ UNCHANGED <<files, summary_ret, updates, saved>>
    /\ UNCHANGED <<extractor_vars, validator_vars, other_vars>>

\* open() raises FileNotFoundError when nothing is stored at the path
Load ==
    /\ \E filepath \in Paths :
        IF files[filepath] = NoFile
        THEN /\ stat_call' = StatCall("load", filepath, "FileNotFoundError")
             /\ loaded' = NoResult
        ELSE /\ stat_call' = StatCall("load", filepath, "return")
             /\ loaded' = JsonLoad(files[filepath])
    /\ UNCHANGED <<samples, files, summary_ret, updates, saved>>
    /\ UNCHANGED <<extractor_vars, validator_vars, other_vars>>

NextStatistics ==
    \/ Update
    \/ Summary
    \/ Save
    \/ Load

SpecStatistics == InitStatistics /\ [][NextStatistics]_vars

-----------------------------------------------------------------------------
(* The state machine of the connector: one action per method *)

InitConnector ==
    /\ \E cfg \in ConnectorConfigs : connector = NewConnector(cfg)
    /\ settings \in SimulatorSettings
    /\ conn_call = ConnCall("none", "none", "None")
    /\ connected_once = FALSE
    /\ NoExtractor
    /\ NoValidator
    /\ NoStatistics
    /\ NoPedestrians
    /\ NoDriver

\* connect(): every assignment made before the call that raises stays made,
\* and the RuntimeError leaves as a ConnectionError
Connect ==
    \E failing \in {"none"} \cup {ConnectSteps[i] : i \in DOMAIN ConnectSteps} :
        /\ connector' = Connected(connector, failing)
        /\ settings' = Applied(connector, settings, failing)
        /\ conn_call' = IF failing = "none"
                        THEN ConnCall("connect", "none", "True")
                        ELSE ConnCall("connect", "ConnectionError", "None")
        /\ connected_once' = (connected_once \/ failing = "none")
        /\ UNCHANGED <<extractor_vars, validator_vars, statistics_vars>>
        /\ UNCHANGED <<pedestrian_vars, driver_vars>>

GetWorld ==
    /\ conn_call' = Getter(connector, "world")
    /\ UNCHANGED <<connector, settings, connected_once>>
    /\ UNCHANGED <<extractor_vars, validator_vars, statistics_vars>>
    /\ UNCHANGED <<pedestrian_vars, driver_vars>>

GetBlueprintLibrary ==
    /\ conn_call' = Getter(connector, "blueprint_library")
    /\ UNCHANGED <<connector, settings, connected_once>>
    /\ UNCHANGED <<extractor_vars, validator_vars, statistics_vars>>
    /\ UNCHANGED <<pedestrian_vars, driver_vars>>

GetMap ==
    /\ conn_call' = Getter(connector, "map")
    /\ UNCHANGED <<connector, settings, connected_once>>
    /\ UNCHANGED <<extractor_vars, validator_vars, statistics_vars>>
    /\ UNCHANGED <<pedestrian_vars, driver_vars>>

NextConnector == Connect \/ GetWorld \/ GetBlueprintLibrary \/ GetMap

SpecConnector == InitConnector /\ [][NextConnector]_vars

-----------------------------------------------------------------------------
(* The state machine of the pedestrian generator: one action per method *)

\* history: what a course of the loop adds to the actors spawned
RECURSIVE Assigned(_)
Assigned(script) ==
    IF script = << >> \/ Head(script).outcome # "spawned" THEN << >>
    ELSE <<[event |-> "spawn", id |-> Head(script).actor.id,
            attributes |-> Head(script).attributes]>>
         \o Assigned(Tail(script))

InitPedestrians ==
    /\ \E probs \in ProbabilityArguments :
           probabilities = validate_probabilities(probs)
    /\ walker_blueprints \in {<< >>, <<"walker.pedestrian.0001">>}
    /\ attributes_by_actor_id = << >>
    /\ ped_call = PedCall("none", 0, "none", NoneVal)
    /\ assignments = << >>
    /\ NoExtractor
    /\ NoValidator
    /\ NoStatistics
    /\ NoConnector
    /\ NoDriver

SpawnPedestrians ==
    \E count \in -1 .. MaxCount, n_points \in {0, 1} :
        /\ Len(assignments) + count <= MaxEvents
        /\ \E script \in (IF count <= 0 \/ walker_blueprints = << >>
                           THEN {<< >>}
                           ELSE SpawnScripts(0, count, n_points,
                                             probabilities)) :
              LET r == spawn_pedestrians(attributes_by_actor_id, count,
                                         walker_blueprints, script)
              IN  /\ attributes_by_actor_id' = r.dict
                  /\ ped_call' = PedCall("spawn_pedestrians", count,
                                         r.exc, r.ret)
                  /\ assignments' = assignments \o Assigned(script)
        /\ UNCHANGED <<probabilities, walker_blueprints>>
        /\ UNCHANGED <<extractor_vars, validator_vars, statistics_vars>>
        /\ UNCHANGED <<connector_vars, driver_vars>>

GetAttributesOf(actor_or_id) ==
    /\ ped_call' = PedCall("get_attributes", actor_or_id, "none",
                           get_attributes(attributes_by_actor_id, actor_or_id))
    /\ UNCHANGED <<probabilities, walker_blueprints, attributes_by_actor_id,
                   assignments>>
    /\ UNCHANGED <<extractor_vars, validator_vars, statistics_vars>>
    /\ UNCHANGED <<connector_vars, driver_vars>>

GetAttributes ==
    \E i \in ActorIds :
        GetAttributesOf(IntArg(i)) \/ GetAttributesOf(ActorArg(i))

Clear ==
    /\ Len(assignments) < MaxEvents
    /\ attributes_by_actor_id' = clear(attributes_by_actor_id)
    /\ ped_call' = PedCall("clear", 0, "none", NoneVal)
    /\ assignments' = Append(assignments, [event |-> "clear", id |-> 0,
                                           attributes |-> NoneVal])
    /\ UNCHANGED <<probabilities, walker_blueprints>>
    /\ UNCHANGED <<extractor_vars, validator_vars, statistics_vars>>
    /\ UNCHANGED <<connector_vars, driver_vars>>

NextPedestrians == SpawnPedestrians \/ GetAttributes \/ Clear

SpecPedestrians == InitPedestrians /\ [][NextPedestrians]_vars

-----------------------------------------------------------------------------
(* The state machine of the validation script: one action per round of the *)
(* loop and one for the report                                             *)

\* main() up to the loop: the array is loaded, the validator and the
\* statistics are constructed, errors is empty
InitDriver ==
    /\ \E len \in {ExpectedDim, ExpectedDim - 1} :
           states \in Arrays(len, MaxBatch)
    /\ next_idx = 0
    /\ errors = << >>
    /\ report = NoReport
    /\ driver_pc = "loop"
    /\ processed = << >>
    /\ ranges \in RangeConfigs
    /\ validation = NoValidation
    /\ NoStatistics
    /\ NoExtractor
    /\ NoConnector
    /\ NoPedestrians

\* a round of the loop: validate, then update or, on a caught exception,
\* errors.append; any other exception leaves main()
LoopRound ==
    /\ driver_pc = "loop"
    /\ next_idx < Len(states)
    /\ LET state_vector == states[next_idx + 1]
           result == validate(state_vector)
       IN  /\ validation' = [op |-> "validate", state |-> state_vector,
                             result |-> result]
           /\ samples' = Fold(samples, result, state_vector)
           /\ updates' = IF result.exc = "return" THEN updates + 1 ELSE updates
           /\ stat_call' = IF result.exc = "return"
                           THEN StatCall("update", "", "return") ELSE stat_call
           /\ errors' = Record(errors, next_idx, result)
           /\ driver_pc' = IF result.exc = "return" \/ Caught(result.exc)
                           THEN "loop" ELSE "raised"
    /\ processed' = Append(processed, next_idx)
    /\ next_idx' = next_idx + 1
    /\ UNCHANGED <<states, report, ranges>>
    /\ UNCHANGED <<files, summary_ret, loaded, saved>>
    /\ UNCHANGED <<extractor_vars, connector_vars, pedestrian_vars>>

\* the loop is over: the report is written, with the summary at its end
WriteReport ==
    /\ driver_pc = "loop"
    /\ next_idx = Len(states)
    /\ \E stats \in {summary(samples)} :
          /\ summary_ret' = stats
          /\ report' = Report(errors, states, stats)
    /\ stat_call' = StatCall("summary", "", "return")
    /\ driver_pc' = "done"
    /\ UNCHANGED <<states, next_idx, errors, processed>>
    /\ UNCHANGED <<samples, files, loaded, updates, saved>>
    /\ UNCHANGED <<validator_vars, extractor_vars, connector_vars,
                   pedestrian_vars>>

NextDriver == LoopRound \/ WriteReport

SpecDriver == InitDriver /\ [][NextDriver]_vars

-----------------------------------------------------------------------------
(* The claims *)

One == Rat(1, 1)
MinusOne == Rat(-1, 1)
ZeroVal == Rat(0, 1)

\* the non-negative integer whose square is n
Root(n) == CHOOSE r \in 0 .. n : r * r = n

\* a call of get_lane_position that returned with a lane frame found
LaneFrameFound ==
    op = "get_lane_position" /\ outcome = "return" /\ waypoint.found

\* clamp(((vx - cx) * (-fy) + (vy - cy) * fx) / max_lane_offset, -1, 1)
ClaimedLaneOffset(v, wp) ==
    LET m == CfgGet("max_lane_offset", DefaultMaxLaneOffset)
        lateral == (v[1] - wp.location[1]) * (-wp.forward[2])
                   + (v[2] - wp.location[2]) * wp.forward[1]
        q == RatDiv(Rat(lateral, 1), m)
    IN  IF RatLT(q, MinusOne) THEN MinusOne
        ELSE IF RatLT(One, q) THEN One ELSE q

\* C1: for every ego position and every lane frame found, get_lane_position
\* on an initialized extractor returns a number in [-1, 1].
C1_LanePositionInUnitInterval ==
    LaneFrameFound => IsNum(ret) /\ RatLE(MinusOne, ret) /\ RatLE(ret, One)

\* a call of extract_basic_state that returned its vector
VectorReturned == op = "extract_basic_state" /\ outcome = "return"

\* C2: the state vector returned by extract_basic_state never contains NaN.
C2_NoNaNInStateVector ==
    VectorReturned => \A i \in DOMAIN state : state[i] # NaNVal

\* C3 as claimed: every vector returned by extract_basic_state has the
\* validator's dimension (40), with positions 4..N-1 filled with 0.0.
C3_LengthIsExpectedDim ==
    VectorReturned =>
        /\ Len(state) = ExpectedDim
        /\ \A i \in 5 .. Len(state) : state[i] = ZeroVal

\* C3 as amended: every vector returned by extract_basic_state has length
\* exactly 4 (the four named features), and no reserved slots.
C3_LengthIsFour == VectorReturned => Len(state) = 4

C3_Witness == VectorReturned /\ state # << >> /\ lead_vehicle # NoneActor

\* C4: when a lane frame is found, get_lane_position returns the clamped,
\* normalized projection on the right direction, and 0 when the vehicle is
\* at the lane-frame position.
C4_LanePositionIsClampedProjection ==
    LaneFrameFound =>
        /\ ret = ClaimedLaneOffset(ego_vehicle.location, waypoint)
        /\ (ego_vehicle.location = waypoint.location => ret = ZeroVal)

\* C5: with lane forward (1,0,0) and max_lane_offset m, a vehicle at lane-centre
\* y minus m gives +1, at lane-centre y plus m gives -1, and at lane-centre y
\* minus 5 (beyond the half width) gives +1.
C5_EdgesOfLane ==
    LET m == CfgGet("max_lane_offset", DefaultMaxLaneOffset)
        vy == Rat(ego_vehicle.location[2], 1)
        cy == Rat(waypoint.location[2], 1)
    IN  (LaneFrameFound /\ waypoint.forward = <<1, 0, 0>>
            /\ ego_vehicle.location[1] = waypoint.location[1]) =>
            /\ (RatSub(cy, vy) = m => ret = One)
            /\ (RatSub(vy, cy) = m => ret = MinusOne)
            /\ (RatSub(cy, vy) = Rat(5, 1) /\ RatLT(m, Rat(5, 1)) => ret = One)

\* C6: when the lane query finds no lane frame for the ego position,
\* get_lane_position returns 0.0 and raises nothing.
C6_NoLaneFrameGivesZero ==
    (op = "get_lane_position" /\ ego_vehicle # NoneActor /\ map # "None"
        /\ ~waypoint.found) =>
        outcome = "return" /\ ret = ZeroVal

C6_Witness ==
    /\ op = "get_lane_position" /\ ego_vehicle # NoneActor /\ map # "None"
    /\ ~waypoint.found /\ outcome = "return"

\* the calls that ran _find_lead_vehicle to its end
LeadSearched ==
    /\ op \in {"get_velocity_delta", "extract_basic_state", "get_state_dict"}
    /\ outcome = "return"

MaxDetectionDistance == CfgGet("max_detection_distance", DefaultMaxDetectionDistance)
DetectionAngle == CfgGet("detection_angle", DefaultDetectionAngle)

\* the displacement from the ego to vehicle v
ToVehicle(v) == Minus(v.location, ego_vehicle.location)

\* the distance from the ego to v is at most MaxDetectionDistance
WithinDistance(v) ==
    MaxDetectionDistance >= 0
    /\ NormSq(ToVehicle(v)) <= MaxDetectionDistance * MaxDetectionDistance

\* the ego forward vector has a strictly positive projection on the
\* displacement to v
Ahead(v) == Dot(ego_vehicle.forward, ToVehicle(v)) > 0

\* the angle between the ego forward vector and the displacement to v is at
\* most DetectionAngle (at most 90 degrees): its cosine is at least
\* cos(DetectionAngle)
WithinAngle(v) ==
    LET c == CosSq(DetectionAngle)
        dot == Dot(ego_vehicle.forward, ToVehicle(v))
    IN  /\ dot >= 0
        /\ dot * dot * c.d >= c.n * NormSq(ego_vehicle.forward) * NormSq(ToVehicle(v))

\* C7: the actor _find_lead_vehicle returns (when not None) has a strictly
\* positive forward projection, a distance not greater than
\* max_detection_distance and an angle not greater than detection_angle.
C7_LeadIsAheadNearAndInCone ==
    (LeadSearched /\ lead_vehicle # NoneActor) =>
        Ahead(lead_vehicle) /\ WithinDistance(lead_vehicle) /\ WithinAngle(lead_vehicle)

\* a lead was found although a nearer vehicle stands behind or beside the ego
C7_Witness ==
    /\ LeadSearched /\ lead_vehicle # NoneActor
    /\ \E i \in DOMAIN all_vehicles :
        /\ all_vehicles[i].id \notin {ego_vehicle.id, lead_vehicle.id}
        /\ ~Ahead(all_vehicles[i])
        /\ NormSq(ToVehicle(all_vehicles[i])) < NormSq(ToVehicle(lead_vehicle))

\* the positions of the vehicles that are not the ego and pass the three checks
Survivors ==
    { i \in DOMAIN all_vehicles :
        /\ all_vehicles[i].id # ego_vehicle.id
        /\ WithinDistance(all_vehicles[i])
        /\ Ahead(all_vehicles[i])
        /\ WithinAngle(all_vehicles[i]) }

\* C8: _find_lead_vehicle returns a surviving candidate of minimal distance,
\* and None exactly when no candidate survives.
C8_LeadIsNearestSurvivor ==
    LeadSearched =>
        /\ (lead_vehicle = NoneActor <=> Survivors = {})
        /\ (lead_vehicle # NoneActor =>
              \E i \in Survivors :
                  /\ all_vehicles[i] = lead_vehicle
                  /\ \A j \in Survivors :
                        NormSq(ToVehicle(all_vehicles[i]))
                            <= NormSq(ToVehicle(all_vehicles[j])))

\* two candidates survive, the later one is nearer and is the one returned
C8_Witness ==
    /\ LeadSearched
    /\ \E i, j \in Survivors :
        /\ i < j
        /\ NormSq(ToVehicle(all_vehicles[j])) < NormSq(ToVehicle(all_vehicles[i]))
        /\ lead_vehicle = all_vehicles[j]

\* C9: get_velocity_delta returns ego speed minus lead speed (Euclidean norms
\* of the velocity vectors) when a lead vehicle is found, and None when none
\* is found.
C9_VelocityDelta ==
    (op = "get_velocity_delta" /\ ego_vehicle # NoneActor /\ world # "None") =>
        /\ outcome = "return"
        /\ (lead_vehicle = NoneActor => ret = NoneVal)
        /\ (lead_vehicle # NoneActor =>
              ret = Rat(Root(NormSq(ego_vehicle.velocity))
                        - Root(NormSq(lead_vehicle.velocity)), 1))

\* the ego (speed 5) is faster than the lead found (speed 3)
C9_Witness ==
    /\ op = "get_velocity_delta" /\ outcome = "return"
    /\ lead_vehicle # NoneActor
    /\ NormSq(ego_vehicle.velocity) > NormSq(lead_vehicle.velocity)
    /\ ret = Rat(2, 1)

\* C10: extract_basic_state puts ego speed in slot 0, the configured passenger
\* count in slot 1, the lane offset in slot 2 and the velocity delta in slot 3,
\* which is 0.0 when no lead vehicle is found.
C10_SlotsOfStateVector ==
    VectorReturned =>
        /\ state[1] = Rat(Root(NormSq(ego_vehicle.velocity)), 1)
        /\ state[2] = Rat(CfgGet("default_passengers", DefaultPassengers), 1)
        /\ state[3] = IF waypoint.found
                      THEN ClaimedLaneOffset(ego_vehicle.location, waypoint)
                      ELSE ZeroVal
        /\ state[4] = IF lead_vehicle = NoneActor THEN ZeroVal
                      ELSE Rat(Root(NormSq(ego_vehicle.velocity))
                               - Root(NormSq(lead_vehicle.velocity)), 1)

-----------------------------------------------------------------------------
(* The claims on the errors of the extractor *)

ExtractionOps ==
    {"get_ego_velocity", "get_num_passengers", "get_lane_position",
     "get_velocity_delta", "extract_basic_state", "get_state_dict"}

\* the operations that ask the map or the world
WorldOps ==
    {"get_lane_position", "get_velocity_delta", "extract_basic_state",
     "get_state_dict"}

NothingReturned == ret = NoneVal /\ state = << >> /\ state_dict = NoDict

\* C11: every extraction operation called with ego None fails with ValueError
\* and returns no value, whether or not initialize() has been called.
C11_NoneEgoIsValueError ==
    (op \in ExtractionOps /\ ego_vehicle = NoneActor) =>
        (outcome = "ValueError" /\ NothingReturned)

\* get_state_dict, which has no check of its own, called with None after
\* initialize()
C11_Witness ==
    /\ op = "get_state_dict"
    /\ ego_vehicle = NoneActor
    /\ world = "World"
    /\ outcome = "ValueError"

-----------------------------------------------------------------------------
(* The claims on the validator *)

Validated == validation.op = "validate"

\* the list validated is a vector: a sequence of floats, NaN among them
FloatVector ==
    /\ Validated
    /\ \A i \in 1 .. Len(validation.state) :
            validation.state[i].k \in {"num", "NaN"}

ContainsNaN == \E i \in 1 .. Len(validation.state) : validation.state[i] = NaNVal

DimensionError ==
    ValidationResult("ValueError", "dimension", "",
                     <<Rat(40, 1), Rat(Len(validation.state), 1)>>)

\* position i has a configured range and its value lies outside of it
ClaimedOutOfRange(i) ==
    \E key \in DOMAIN ranges :
        /\ key = feature_order[i] \o "_range"
        /\ validation.state[i].k = "num"
        /\ \/ RatLT(validation.state[i], ranges[key][1])
           \/ RatLT(ranges[key][2], validation.state[i])

\* C12: validate raises the dimension error, a ValueError naming the expected
\* and the actual length, for every vector whose length is not 40, and never
\* for a list of length 40.
C12_DimensionErrorIffWrongLength ==
    /\ (FloatVector /\ Len(validation.state) # 40) =>
            validation.result = DimensionError
    /\ (Validated /\ Len(validation.state) = 40) =>
            validation.result.check # "dimension"

\* a vector of 39 floats turned away
C12_Witness ==
    /\ FloatVector
    /\ Len(validation.state) = 39
    /\ validation.result = DimensionError

\* C13: a vector of length 40 that holds at least one NaN is rejected with
\* the content error, whatever the ranges and the other elements are.
C13_NaNIsContentError ==
    (FloatVector /\ Len(validation.state) = 40 /\ ContainsNaN) =>
        validation.result = ValidationResult("ValueError", "NaN", "", << >>)

\* NaN in the last slot, next to a speed outside of its configured range
C13_Witness ==
    /\ FloatVector
    /\ Len(validation.state) = 40
    /\ validation.state[40] = NaNVal
    /\ "velocity_ego_range" \in DOMAIN ranges
    /\ validation.state[1] = Rat(60, 1)
    /\ validation.result.check = "NaN"

\* C14: a vector of length 40 without NaN fails with the range error exactly
\* when some position whose feature has a configured range [low, high] holds
\* a value below low or above high; otherwise it is accepted.
C14_RangeErrorIffOutOfRange ==
    (FloatVector /\ Len(validation.state) = 40 /\ ~ContainsNaN) =>
        IF \E i \in 1 .. 40 : ClaimedOutOfRange(i)
        THEN validation.result.exc = "ValueError" /\ validation.result.check = "range"
        ELSE validation.result = ValidationResult("return", "", "", << >>)

\* the speed on its upper bound and a lane position without a range pass,
\* the last obstacle slot is outside of its range
C14_Witness ==
    /\ FloatVector
    /\ Len(validation.state) = 40
    /\ "velocity_ego_range" \in DOMAIN ranges
    /\ validation.state[1] = ranges["velocity_ego_range"][2]
    /\ "lane_position_range" \notin DOMAIN ranges
    /\ validation.state[3] = Rat(30, 1)
    /\ validation.state[40] = Rat(30, 1)
    /\ validation.result =
           ValidationResult("ValueError", "range", "obstacle_32",
                            <<Rat(30, 1), Rat(0, 1), Rat(1, 1)>>)

\* C15: the checks are applied in the order dimension, NaN, range, type and
\* only the first that fails is reported: a list of a wrong length gets the
\* dimension error whatever it holds, a list of length 40 with a NaN gets the
\* content error whatever else it holds, of several positions out of range
\* the lowest is reported, and the type error is reported only when the
\* three other checks pass.
C15_ChecksInOrder ==
    Validated =>
        /\ Len(validation.state) # 40 => validation.result = DimensionError
        /\ (Len(validation.state) = 40 /\ ContainsNaN) =>
               validation.result.check = "NaN"
        /\ (FloatVector /\ Len(validation.state) = 40 /\ ~ContainsNaN) =>
               \A i \in 1 .. 40 :
                   (ClaimedOutOfRange(i) /\ \A j \in 1 .. i - 1 : ~ClaimedOutOfRange(j))
                       => /\ validation.result.check = "range"
                          /\ validation.result.feature = feature_order[i]
        /\ validation.result.check = "type" =>
               /\ Len(validation.state) = 40
               /\ ~ContainsNaN
               /\ \A i \in 1 .. 40 : ~ClaimedOutOfRange(i)

\* C16: a list of length 40 that holds an element that is no number (a
\* string) makes validate fail with TypeError.
C16_NonNumericIsTypeError ==
    (/\ Validated
     /\ Len(validation.state) = 40
     /\ \E i \in 1 .. 40 : validation.state[i].k \in {"str", "numstr"}) =>
        validation.result.exc = "TypeError"

-----------------------------------------------------------------------------
(* The claims on the statistics *)

SummaryReturned == stat_call = StatCall("summary", "", "return")

\* summary() has answered on samples that are N >= 1 copies of one vector
CopiesOfOneVector ==
    /\ SummaryReturned
    /\ Len(samples) >= 1
    /\ \A i \in 1 .. Len(samples) : samples[i] = samples[1]

ZeroVector(len) == [j \in 1 .. len |-> Rat(0, 1)]

C18_CountIsNumberOfUpdates ==
    SummaryReturned =>
        /\ (summary_ret = EmptyDict) <=> (updates = 0)
        /\ updates > 0 => summary_ret.count = updates

\* summary() after two updates, with one snapshot saved before the first
\* update and one before the second
C18_Witness ==
    /\ SummaryReturned
    /\ updates = 2
    /\ summary_ret.count = 2
    /\ saved["stats_a.json"] = EmptyDict
    /\ saved["stats_b.json"] # NoResult
    /\ saved["stats_b.json"] # EmptyDict
    /\ saved["stats_b.json"].count = 1

-----------------------------------------------------------------------------
(* The claims on ties and on the divisor in _find_lead_vehicle *)

\* the positions of the surviving candidates of minimal distance
NearestSurvivors ==
    { i \in Survivors :
        \A j \in Survivors :
            NormSq(ToVehicle(all_vehicles[i])) <= NormSq(ToVehicle(all_vehicles[j])) }

\* C22: when several surviving candidates share the minimal distance, the
\* one returned is the first of them in the enumeration order of the actors.
C22_FirstOfTheNearestWins ==
    (LeadSearched /\ NearestSurvivors # {}) =>
        \E i \in NearestSurvivors :
            /\ lead_vehicle = all_vehicles[i]
            /\ \A j \in NearestSurvivors : i <= j

\* two different candidates at the same minimal distance
C22_Witness ==
    /\ LeadSearched
    /\ \E i, j \in NearestSurvivors :
        /\ i < j
        /\ all_vehicles[i] # all_vehicles[j]
        /\ lead_vehicle = all_vehicles[i]

\* a search of the lead vehicle that was started (the world was there)
LeadLoopEntered ==
    /\ op \in {"get_velocity_delta", "extract_basic_state", "get_state_dict"}
    /\ ego_vehicle # NoneActor
    /\ outcome \notin {"ValueError", "RuntimeError"}

\* C25: no division by zero occurs in _find_lead_vehicle: a candidate at the
\* very position of the ego, and every candidate when the forward vector of
\* the ego is zero, has dot_product <= 0 and is rejected before the division
\* (it is never the lead vehicle).
C25_NoDivisionByZero ==
    LeadLoopEntered =>
        /\ outcome = "return"
        /\ \A i \in DOMAIN all_vehicles :
               (/\ all_vehicles[i].id # ego_vehicle.id
                /\ \/ all_vehicles[i].location = ego_vehicle.location
                   \/ ego_vehicle.forward = Zero3)
               => /\ Dot(ego_vehicle.forward, ToVehicle(all_vehicles[i])) <= 0
                  /\ lead_vehicle # all_vehicles[i]

\* a candidate within reach at the very position of an ego whose forward
\* vector is not zero
C25_Witness ==
    /\ op = "get_velocity_delta"
    /\ outcome = "return"
    /\ \E i \in DOMAIN all_vehicles :
        /\ all_vehicles[i].id # ego_vehicle.id
        /\ all_vehicles[i].location = ego_vehicle.location
        /\ ego_vehicle.forward # Zero3
        /\ WithinDistance(all_vehicles[i])

-----------------------------------------------------------------------------
(* The claim on what the methods of Statistics leave alone *)

\* C24: the accumulated samples change only through update(), which appends
\* one sample; summary(), save() and load() leave them as they are, and the
\* structure summary() returned stays as it is until summary() is called
\* again, whatever is updated in between.
C24_OnlyUpdateChangesSamples ==
    [][ /\ stat_call'.op \in {"summary", "save", "load"} => samples' = samples
        /\ samples' # samples =>
               /\ stat_call'.op = "update"
               /\ Len(samples') = Len(samples) + 1
               /\ SubSeq(samples', 1, Len(samples)) = samples
        /\ stat_call'.op # "summary" => summary_ret' = summary_ret ]_vars

\* an update after summary() has answered on one sample and a snapshot has
\* been saved: the structure returned still counts one sample
C24_Witness ==
    /\ stat_call.op = "update"
    /\ Len(samples) = 2
    /\ summary_ret # NoResult
    /\ summary_ret # EmptyDict
    /\ summary_ret.count = 1
    /\ summary_ret.min = samples[1]
    /\ saved["stats_a.json"] # NoResult

-----------------------------------------------------------------------------
(* The claim on the connector *)

ConnectorGetters == {"get_world", "get_blueprint_library", "get_map"}

\* C26: get_world, get_blueprint_library and get_map each raise RuntimeError
\* unless some connect() has returned, also after a connect() that raised
\* ConnectionError at any of its calls.
C26_GettersRaiseUntilConnected ==
    (conn_call.op \in ConnectorGetters /\ ~connected_once)
        => conn_call.exc = "RuntimeError"

\* what holds instead: a getter raises exactly when its own field is None
C26_GetterRaisesIffFieldIsNone ==
    /\ conn_call.op = "get_world"
            => (conn_call.exc = "RuntimeError" <=> connector.world = "None")
    /\ conn_call.op = "get_blueprint_library"
            => (conn_call.exc = "RuntimeError"
                    <=> connector.blueprint_library = "None")
    /\ conn_call.op = "get_map"
            => (conn_call.exc = "RuntimeError" <=> connector.map = "None")

\* get_world() returns the world although no connect() has returned
C26_WorldWithoutConnection ==
    /\ conn_call = ConnCall("get_world", "none", "World")
    /\ ~connected_once
    /\ connector.map = "None"

-----------------------------------------------------------------------------
(* The claim on the pedestrian generator *)

\* the attributes the last spawn since the last clear() gave to the id, or
\* None, read off the history from its end
RECURSIVE LastAssigned(_, _)
LastAssigned(log, i) ==
    IF log = << >> THEN NoneVal
    ELSE LET last == log[Len(log)]
         IN  IF last.event = "clear" THEN NoneVal
             ELSE IF last.id = i THEN last.attributes
             ELSE LastAssigned(SubSeq(log, 1, Len(log) - 1), i)

\* C21: get_attributes(actor or id) returns the attributes most recently
\* assigned to the id by a spawn since the last clear(), and None for an id
\* not spawned since; a spawn_pedestrians(count) that completes returns
\* exactly max(count, 0) (actor, attributes) pairs.
C21_AttributesOfLastSpawnSinceClear ==
    /\ ped_call.op = "get_attributes"
        => ped_call.ret = LastAssigned(assignments,
                                       IF ped_call.arg.isinstance = "int"
                                       THEN ped_call.arg.value
                                       ELSE ped_call.arg.value.id)
    /\ \A i \in ActorIds :
           /\ get_attributes(attributes_by_actor_id, IntArg(i))
                  = LastAssigned(assignments, i)
           /\ get_attributes(attributes_by_actor_id, ActorArg(i))
                  = LastAssigned(assignments, i)
    /\ (ped_call.op = "spawn_pedestrians" /\ ped_call.exc = "none")
        => /\ Len(ped_call.ret) = (IF ped_call.arg > 0 THEN ped_call.arg ELSE 0)
           /\ \A k \in DOMAIN ped_call.ret :
                  /\ ped_call.ret[k][1].id \in ActorIds
                  /\ ped_call.ret[k][2] \in generate_attributes(probabilities)

\* an id spawned twice with different attributes and asked for by actor
C21_Witness ==
    /\ ped_call.op = "get_attributes"
    /\ ped_call.arg.isinstance = "Actor"
    /\ ped_call.ret # NoneVal
    /\ \E k \in DOMAIN assignments :
           /\ assignments[k].event = "spawn"
           /\ assignments[k].id = ped_call.arg.value.id
           /\ assignments[k].attributes # ped_call.ret

\* an id spawned before the last clear() and asked for after it
C21_WitnessCleared ==
    /\ ped_call.op = "get_attributes"
    /\ ped_call.arg.isinstance = "int"
    /\ ped_call.ret = NoneVal
    /\ \E k \in DOMAIN assignments :
           /\ assignments[k].event = "spawn"
           /\ assignments[k].id = ped_call.arg.value

-----------------------------------------------------------------------------
(* The claim on the validation script *)

\* the item fails validation: validate raises ValueError or TypeError
FailsValidation(item) == validate(item).exc \in {"ValueError", "TypeError"}

\* the indices, counted from 0, of the failing items among the first n
RECURSIVE FailedAmong(_, _)
FailedAmong(sts, n) ==
    IF n = 0 THEN << >>
    ELSE IF FailsValidation(sts[n])
    THEN Append(FailedAmong(sts, n - 1), n - 1)
    ELSE FailedAmong(sts, n - 1)

\* the passing items among the first n, in their order, as float arrays
RECURSIVE PassedAmong(_, _)
PassedAmong(sts, n) ==
    IF n = 0 THEN << >>
    ELSE IF FailsValidation(sts[n]) THEN PassedAmong(sts, n - 1)
    ELSE Append(PassedAmong(sts, n - 1), AsFloatArray(sts[n]))

\* the count of a summary, none for the empty summary of no samples
CountOf(stats) == IF stats = EmptyDict THEN 0 ELSE stats.count

\* C23: the script goes through every item exactly once and in order; an
\* item that fails validation (ValueError or TypeError) is recorded as an
\* error and the loop goes on; an item that passes is folded into the
\* statistics and no failed item is; at the end the count of the statistics
\* plus the number of recorded errors is the number of items.
C23_EveryItemFoldedOrRecorded ==
    /\ driver_pc \in {"loop", "done"}
    /\ next_idx <= Len(states)
    /\ processed = [k \in 1 .. next_idx |-> k - 1]
    /\ [k \in DOMAIN errors |-> errors[k].idx] = FailedAmong(states, next_idx)
    /\ \A k \in DOMAIN errors :
           errors[k].e = validate(states[errors[k].idx + 1])
    /\ samples = PassedAmong(states, next_idx)
    /\ Len(samples) + Len(errors) = next_idx
    /\ driver_pc = "done"
        => /\ next_idx = Len(states)
           /\ report.total = Len(states)
           /\ report.lines = errors
           /\ CountOf(report.summary) + Len(report.lines) = Len(states)

\* a finished run where the first item failed and the second was folded
C23_Witness ==
    /\ driver_pc = "done"
    /\ Len(states) = 2
    /\ Len(errors) = 1
    /\ errors[1].idx = 0
    /\ errors[1].e.exc = "ValueError"
    /\ report.failed
    /\ report.summary # EmptyDict
    /\ report.summary.count = 1
    /\ report.summary.min = states[2]

====
